---- MODULE Spec2Model ----
(***************************************************************************)
(* Scheduled email dispatch of the webinar site: the schedule store, the   *)
(* attendee store, the cron poller, the dispatch run                       *)
(* (processScheduledEmail) and the admin control surface.                  *)
(*                                                                         *)
(* Every async function is a process; one action is the code between two   *)
(* awaits, with the awaited store or transport call taking effect at the   *)
(* start of the action that resumes after it.  Both tables live in the     *)
(* database and outlive the process, so Init draws their content from the  *)
(* rows earlier requests can have left there.                              *)
(***************************************************************************)
EXTENDS Integers, Sequences, FiniteSets, TLC

\* ---------------------------------------------------------------- bounds
NumAttendees == 2
MaxTicks == 2
MaxMinutes == 2
MaxAdminOps == 1
MaxFaults == 3
MaxRuns == 3
MaxFaultRuns == 2
MaxTimers == 2
NumCallers == 2
NumRequests == 2

\* ------------------------------------------------------- program constants
PostWebinarSlot == 4
NptOffsetMin == 5 * 60 + 45
SLOTS == {1, 2, 3, 4}

\* the slots the modelled operator works with (reset, send-now, update, test)
AdminSlots == {1, 4}

NULL == -1
NoToken == -1
TrigId == 0
TickIds == 1..MaxTicks
Workers == {TrigId} \cup TickIds
Attendees == 1..NumAttendees
Callers == 1..NumCallers
Requests == 1..NumRequests
Emails == {"a@example.com", "A@example.com", "b@example.com"}

Undefined == [kind |-> "undefined"]
NotReturned == [kind |-> "none"]
Thrown == [kind |-> "threw"]

VARIABLES
  sched,         \* scheduledEmail table: slot -> row
  attendees,     \* attendee table: id -> record
  schedulerJob,  \* the module-level cron job handle (TRUE = a job, FALSE = null)
  now,           \* wall clock, minutes
  pc,            \* per async invocation: where it is suspended
  list,          \* per tick: rest of the fetched scheduledEmails
  cur,           \* per invocation: slot of the schedule being processed
  recips,        \* per invocation: rest of the fetched attendees (snapshots)
  successCount,  \* per invocation: local counter
  failCount,     \* per invocation: local counter
  ret,           \* per invocation: what processScheduledEmail gave its caller
  hist,          \* per invocation: what the current run has done (history)
  audit,         \* transport successes and flag writes so far (history)
  lastTest,      \* what the last test-send did (history)
  flash,         \* last message shown to the operator
  faults,        \* store failures so far
  adminOps,      \* admin requests so far
  runs,          \* dispatch runs started so far
  timers,        \* cron jobs that are scheduled and not stopped
  schedulerLog,  \* last console line of initScheduler / stopScheduler
  ensure,        \* per initDefaultSchedules call: where it is suspended
  attendeeEmails,\* attendee table, email column: email -> number of rows
  reg,           \* per POST /register request: where it is suspended
  lastReq,       \* what the router did with the last admin request (history)
  bulk           \* the POST /send-bulk-email request: where it is suspended

\* the state the dispatch engine's own steps never touch
aux == <<timers, schedulerLog, ensure, attendeeEmails, reg, lastReq, bulk>>

vars == <<sched, attendees, schedulerJob, now, pc, list, cur, recips,
          successCount, failCount, ret, hist, audit, lastTest, flash,
          faults, adminOps, runs, aux>>

workerVars == <<pc, list, cur, recips, successCount, failCount, ret, hist, runs>>

\* ------------------------------------------------------------ pure helpers

\* scheduler.js:86-87
isPostWebinar(slot) == slot = PostWebinarSlot

\* faulty variant: every slot tracked by the first reminder's flag
trackingFieldFirst(slot) == "reminder1Sent"

trackingField(slot) ==
  IF isPostWebinar(slot) THEN "postWebinarSent"
  ELSE IF slot = 1 THEN "reminder1Sent"
  ELSE IF slot = 2 THEN "reminder2Sent"
  ELSE "reminder3Sent"

\* email.js:756-758: emailType = `reminder${reminderSlot}`
reminderEmailType(slot) ==
  IF slot = 1 THEN "reminder1" ELSE IF slot = 2 THEN "reminder2" ELSE "reminder3"

EmailTypes == {"reminder1", "reminder2", "reminder3", "postWebinar"}

\* the email type a dispatch of the slot sends (scheduler.js:118-122)
slotEmailType(slot) ==
  IF isPostWebinar(slot) THEN "postWebinar" ELSE reminderEmailType(slot)

\* faulty variant: a reminder marks all three reminders as sent
WebinarUpdateAllReminders(rec, emailType) ==
  [rec EXCEPT !.emailSent = TRUE, !.reminder1Sent = TRUE,
              !.reminder2Sent = TRUE, !.reminder3Sent = TRUE]

\* email.js:733-745: the attendee update after a successful webinar email
WebinarUpdate(rec, emailType) ==
  LET r0 == [rec EXCEPT !.emailSent = TRUE]
      r1 == IF emailType = "reminder1" THEN [r0 EXCEPT !.reminder1Sent = TRUE] ELSE r0
      r2 == IF emailType = "reminder2" THEN [r1 EXCEPT !.reminder2Sent = TRUE] ELSE r1
      r3 == IF emailType = "reminder3" THEN [r2 EXCEPT !.reminder3Sent = TRUE] ELSE r2
  IN r3

\* email.js:923-928
PostWebinarUpdate(rec) == [rec EXCEPT !.postWebinarSent = TRUE]

\* faulty variant: the update flips the flag instead of setting it
SentUpdateToggle(rec, emailType) ==
  IF emailType = "postWebinar" THEN [rec EXCEPT !.postWebinarSent = ~@]
  ELSE IF emailType = "reminder1" THEN [rec EXCEPT !.reminder1Sent = ~@]
  ELSE IF emailType = "reminder2" THEN [rec EXCEPT !.reminder2Sent = ~@]
  ELSE [rec EXCEPT !.reminder3Sent = ~@]

\* the attendee update made after a successful send of the given type
SentUpdate(rec, emailType) ==
  IF emailType = "postWebinar" THEN PostWebinarUpdate(rec)
  ELSE WebinarUpdate(rec, emailType)

RECURSIVE SortedSeq(_)
SortedSeq(S) ==
  IF S = {} THEN <<>>
  ELSE LET m == CHOOSE x \in S : \A y \in S : x <= y
       IN <<m>> \o SortedSeq(S \ {m})

\* scheduler.js:54-62: enabled, pending, scheduledTime <= now
IsDue(row, t) ==
  /\ row.enabled
  /\ row.status = "pending"
  /\ row.scheduledTime # NULL
  /\ row.scheduledTime <= t

DueSlots(sc, t) == SortedSeq({s \in DOMAIN sc : IsDue(sc[s], t)})

\* faulty variant: the query without its where clause
PendingAttendeesAll(att, slot) == DOMAIN att

\* scheduler.js:90-94: attendees whose tracking field is false
PendingAttendees(att, slot) ==
  {a \in DOMAIN att : att[a][trackingField(slot)] = FALSE}

Snapshot(att, a) == [id |-> a, surveyToken |-> att[a].surveyToken]

RECURSIVE SnapshotSeq(_, _)
SnapshotSeq(att, ids) ==
  IF ids = <<>> THEN <<>>
  ELSE <<Snapshot(att, Head(ids))>> \o SnapshotSeq(att, Tail(ids))

NewHist == [readSet |-> {}, attempted |-> {}, sentOk |-> {}, marked |-> {},
            faulted |-> FALSE, afterClean |-> FALSE, outcome |-> "none"]

\* scheduler.js:227-234: the row initDefaultSchedules creates
DefaultRow == [enabled |-> FALSE, status |-> "pending", scheduledTime |-> NULL,
               lastRun |-> NULL, subject |-> "default"]

\* an attendee as registration leaves it; attendee 1 is a record without a token
NewAttendee(a) ==
  [emailSent |-> FALSE, reminder1Sent |-> FALSE, reminder2Sent |-> FALSE,
   reminder3Sent |-> FALSE, postWebinarSent |-> FALSE,
   surveyToken |-> IF a = 1 THEN NoToken ELSE 100 + a]

\* an initDefaultSchedules call that is not running
IdleCall == [pc |-> "idle", slot |-> 0, outcome |-> "none"]

\* a POST /register request that is not running
IdleRequest == [pc |-> "idle", email |-> "", outcome |-> "none"]

\* a bulk send that has not been requested
IdleBulk == [pc |-> "idle", filter |-> "none", recips |-> <<>>, readSet |-> {},
             sentOk |-> {}, successCount |-> 0, failCount |-> 0]

\* no admin request yet
NoRequest == [route |-> "none", authenticated |-> FALSE, redirect |-> "none",
              handled |-> FALSE]

\* ------------------------------------------------------------------- Init
\* rows as earlier updateSchedule calls can have left them: untouched, enabled
\* and due at minute 1, enabled and due after the last modelled minute
InitRows == {DefaultRow,
             [DefaultRow EXCEPT !.enabled = TRUE, !.scheduledTime = 1],
             [DefaultRow EXCEPT !.enabled = TRUE, !.scheduledTime = MaxMinutes + 1]}

InitScheds ==
  {sc \in [SLOTS -> InitRows] : \A s \in SLOTS \ AdminSlots : sc[s] = DefaultRow}

\* a database in which initDefaultSchedules has not yet created every row
PartialScheds ==
  {[s \in D |-> sc[s]] : sc \in InitScheds, D \in SUBSET SLOTS}

\* everything but the scheduledEmail table
InitRest ==
  /\ attendees = [a \in Attendees |-> NewAttendee(a)]
  /\ schedulerJob = FALSE
  /\ now = 0
  /\ pc = [w \in Workers |-> "idle"]
  /\ list = [w \in Workers |-> <<>>]
  /\ cur = [w \in Workers |-> 0]
  /\ recips = [w \in Workers |-> <<>>]
  /\ successCount = [w \in Workers |-> 0]
  /\ failCount = [w \in Workers |-> 0]
  /\ ret = [w \in Workers |-> NotReturned]
  /\ hist = [w \in Workers |-> NewHist]
  /\ audit = [delivered |-> [a \in Attendees |-> [t \in EmailTypes |-> 0]],
              flagWrites |-> [a \in Attendees |-> [t \in EmailTypes |-> 0]],
              cleanDone |-> [s \in SLOTS |-> FALSE]]
  /\ lastTest = [slot |-> 0, transportCalls |-> 0, attendeeWrites |-> 0]
  /\ flash = "none"
  /\ faults = 0
  /\ adminOps = 0
  /\ runs = 0
  /\ timers = 0
  /\ schedulerLog = "none"
  /\ ensure = [c \in Callers |-> IdleCall]
  /\ attendeeEmails = [e \in Emails |-> 0]
  /\ reg = [r \in Requests |-> IdleRequest]
  /\ lastReq = NoRequest
  /\ bulk = IdleBulk

Init ==
  /\ sched \in InitScheds
  /\ InitRest

\* the process starts on a database that may lack rows of the table
PartialInit ==
  /\ sched \in PartialScheds
  /\ InitRest

\* ------------------------------------------------------------ the poller

\* faulty variant: the start never sees a job
AlreadyRunningNever == FALSE

\* scheduler.js:20: if (schedulerJob)
AlreadyRunning == schedulerJob

\* scheduler.js:200: isRunning: schedulerJob !== null
isRunning == schedulerJob

\* scheduler.js:19-33; cron.schedule creates a job that fires from then on
initScheduler ==
  /\ IF AlreadyRunning
     THEN /\ schedulerLog' = "alreadyRunning"
          /\ UNCHANGED <<schedulerJob, timers>>
     ELSE /\ timers < MaxTimers
          /\ timers' = timers + 1
          /\ schedulerJob' = TRUE
          /\ schedulerLog' = "started"
  /\ UNCHANGED <<sched, attendees, now, workerVars, audit, lastTest, flash,
                 faults, adminOps, ensure, attendeeEmails, reg, lastReq, bulk>>

\* scheduler.js:38-44; job.stop() ends the firing of that one job
stopScheduler ==
  /\ IF schedulerJob
     THEN /\ timers' = timers - 1
          /\ schedulerJob' = FALSE
          /\ schedulerLog' = "stopped"
     ELSE UNCHANGED <<schedulerJob, timers, schedulerLog>>
  /\ UNCHANGED <<sched, attendees, now, workerVars, audit, lastTest, flash,
                 faults, adminOps, ensure, attendeeEmails, reg, lastReq, bulk>>

\* position in the loop over the fetched attendees (scheduler.js:103-114)
NextPc(rs) ==
  IF rs = <<>> THEN "complete"
  ELSE IF Head(rs).surveyToken = NoToken THEN "mintToken"
  ELSE "send"

\* faulty variant: a failed recipient ends the loop in the catch block of the run
AfterFailureAbort(rs) == "rollback"

\* scheduler.js:126-135: a recipient failed, the loop goes on with the next one
AfterFailure(rs) == NextPc(Tail(rs))

\* the invocation w enters processScheduledEmail(schedule) for the slot
BeginRun(w, slot) ==
  /\ runs < MaxRuns
  /\ runs' = runs + 1
  /\ pc' = [pc EXCEPT ![w] = "markRunning"]
  /\ cur' = [cur EXCEPT ![w] = slot]
  /\ recips' = [recips EXCEPT ![w] = <<>>]
  /\ successCount' = [successCount EXCEPT ![w] = 0]
  /\ failCount' = [failCount EXCEPT ![w] = 0]
  /\ ret' = [ret EXCEPT ![w] = NotReturned]
  /\ hist' = [hist EXCEPT ![w] =
                [NewHist EXCEPT !.afterClean = audit.cleanDone[slot]]]

\* the invocation w is over
EndInvocation(w) ==
  /\ pc' = [pc EXCEPT ![w] = "idle"]
  /\ list' = [list EXCEPT ![w] = <<>>]
  /\ cur' = [cur EXCEPT ![w] = 0]
  /\ recips' = [recips EXCEPT ![w] = <<>>]
  /\ successCount' = [successCount EXCEPT ![w] = 0]
  /\ failCount' = [failCount EXCEPT ![w] = 0]
  /\ ret' = [ret EXCEPT ![w] = NotReturned]
  /\ hist' = [hist EXCEPT ![w] = NewHist]
  /\ UNCHANGED runs

\* the callback of the next cron firing runs as the first free invocation
FreeTick(w) ==
  /\ w \in TickIds
  /\ pc[w] = "idle"
  /\ \A v \in TickIds : v < w => pc[v] # "idle"

\* scheduler.js:28-30 and 49-67: the cron job fires at the next minute and the
\* callback fetches the due schedules
checkAndSendScheduledEmails(w) ==
  /\ timers > 0
  /\ FreeTick(w)
  /\ now < MaxMinutes
  /\ now' = now + 1
  /\ LET scheduledEmails == DueSlots(sched, now')
     IN IF scheduledEmails = <<>>
        THEN UNCHANGED workerVars
        ELSE /\ BeginRun(w, Head(scheduledEmails))
             /\ list' = [list EXCEPT ![w] = Tail(scheduledEmails)]
  /\ UNCHANGED <<sched, attendees, schedulerJob, aux, audit, lastTest, flash,
                 faults, adminOps>>

\* the cron job fires after the last minute the clock of the model counts;
\* every due time of a row that is ever due lies before it
laterTick(w) ==
  /\ timers > 0
  /\ FreeTick(w)
  /\ now = MaxMinutes
  /\ LET scheduledEmails == DueSlots(sched, now)
     IN IF scheduledEmails = <<>>
        THEN UNCHANGED workerVars
        ELSE /\ BeginRun(w, Head(scheduledEmails))
             /\ list' = [list EXCEPT ![w] = Tail(scheduledEmails)]
  /\ UNCHANGED <<sched, attendees, schedulerJob, aux, now, audit, lastTest,
                 flash, faults, adminOps>>

\* scheduler.js:68-70: the findMany of the tick rejects and is logged
checkAndSendFails(w) ==
  /\ timers > 0
  /\ FreeTick(w)
  /\ now < MaxMinutes
  /\ faults < MaxFaults
  /\ now' = now + 1
  /\ faults' = faults + 1
  /\ UNCHANGED <<sched, attendees, schedulerJob, aux, workerVars, audit,
                 lastTest, flash, adminOps>>

\* ------------------------------------------------------- the dispatch run

\* scheduler.js:80-83
RunningData(row) == [row EXCEPT !.status = "running"]

\* faulty variant: the final write sets the status only
CompletedDataNoLastRun(row, t) == [row EXCEPT !.status = "completed"]

\* scheduler.js:139-145
CompletedData(row, t) == [row EXCEPT !.status = "completed", !.lastRun = t]

\* faulty variant: the catch block writes 'completed'
PendingDataCompleted(row) == [row EXCEPT !.status = "completed"]

\* scheduler.js:153-156
PendingData(row) == [row EXCEPT !.status = "pending"]

MarkRunning(w) ==
  /\ pc[w] = "markRunning"
  /\ sched' = [sched EXCEPT ![cur[w]] = RunningData(@)]
  /\ pc' = [pc EXCEPT ![w] = "query"]
  /\ UNCHANGED <<attendees, schedulerJob, aux, now, list, cur, recips, successCount,
                 failCount, ret, hist, runs, audit, lastTest, flash, faults,
                 adminOps>>

\* scheduler.js:86-100
FindRecipients(w) ==
  /\ pc[w] = "query"
  /\ LET found == SnapshotSeq(attendees,
                              SortedSeq(PendingAttendees(attendees, cur[w])))
     IN /\ recips' = [recips EXCEPT ![w] = found]
        /\ hist' = [hist EXCEPT ![w].readSet = {found[i].id : i \in DOMAIN found}]
        /\ pc' = [pc EXCEPT ![w] = NextPc(found)]
  /\ successCount' = [successCount EXCEPT ![w] = 0]
  /\ failCount' = [failCount EXCEPT ![w] = 0]
  /\ UNCHANGED <<sched, attendees, schedulerJob, aux, now, list, cur, ret, runs,
                 audit, lastTest, flash, faults, adminOps>>

\* crypto.randomBytes(32): a value no other minting produces
FreshToken(w, a) == 10 * a + w

\* scheduler.js:106-114
MintToken(w) ==
  /\ pc[w] = "mintToken"
  /\ LET a == Head(recips[w]).id
         token == FreshToken(w, a)
     IN /\ attendees' = [attendees EXCEPT ![a].surveyToken = token]
        /\ recips' = [recips EXCEPT ![w][1].surveyToken = token]
  /\ pc' = [pc EXCEPT ![w] = "send"]
  /\ UNCHANGED <<sched, schedulerJob, aux, now, list, cur, successCount, failCount,
                 ret, hist, runs, audit, lastTest, flash, faults, adminOps>>

\* faulty variant: the attendee is updated whatever the result
UpdatesAttendeeAlways(success) == TRUE

\* email.js:733 / 923: if (result.success)
UpdatesAttendee(success) == success

\* scheduler.js:117-128 with email.js:722-730 / 912-920 and
\* brevoEmail.js:57-119: the transport call and its result; success is FALSE
\* both for a failed and for a skipped send
SendEmail(w, success) ==
  /\ pc[w] = "send"
  /\ LET a == Head(recips[w]).id
         type == slotEmailType(cur[w])
     IN /\ audit' = IF success
                    THEN [audit EXCEPT !.delivered[a][type] = @ + 1]
                    ELSE audit
        /\ hist' = [hist EXCEPT ![w].attempted = @ \cup {a},
                                ![w].sentOk = IF success THEN @ \cup {a} ELSE @]
        /\ IF UpdatesAttendee(success)
           THEN /\ pc' = [pc EXCEPT ![w] = "markSent"]
                /\ UNCHANGED <<recips, failCount>>
           ELSE /\ failCount' = [failCount EXCEPT ![w] = @ + 1]
                /\ recips' = [recips EXCEPT ![w] = Tail(@)]
                /\ pc' = [pc EXCEPT ![w] = AfterFailure(recips[w])]
  /\ UNCHANGED <<sched, attendees, schedulerJob, aux, now, list, cur, successCount,
                 ret, runs, lastTest, flash, faults, adminOps>>

\* email.js:732-745 / 922-928 then scheduler.js:124-131
MarkSent(w) ==
  /\ pc[w] = "markSent"
  /\ LET a == Head(recips[w]).id
         type == slotEmailType(cur[w])
     IN /\ attendees' = [attendees EXCEPT ![a] = SentUpdate(@, type)]
        /\ hist' = [hist EXCEPT ![w].marked = @ \cup {a}]
        /\ audit' = [audit EXCEPT !.flagWrites[a][type] = @ + 1]
  /\ successCount' = [successCount EXCEPT ![w] = @ + 1]
  /\ recips' = [recips EXCEPT ![w] = Tail(@)]
  /\ pc' = [pc EXCEPT ![w] = NextPc(Tail(recips[w]))]
  /\ UNCHANGED <<sched, schedulerJob, aux, now, list, cur, failCount, ret, runs,
                 lastTest, flash, faults, adminOps>>

\* scheduler.js:138-147; the function ends without a return statement
MarkCompleted(w) ==
  /\ pc[w] = "complete"
  /\ sched' = [sched EXCEPT ![cur[w]] = CompletedData(@, now)]
  /\ ret' = [ret EXCEPT ![w] = Undefined]
  /\ hist' = [hist EXCEPT ![w].outcome = "completed"]
  /\ audit' = [audit EXCEPT !.cleanDone[cur[w]] = @ \/ (failCount[w] = 0)]
  /\ pc' = [pc EXCEPT ![w] = "returned"]
  /\ UNCHANGED <<attendees, schedulerJob, aux, now, list, cur, recips, successCount,
                 failCount, runs, lastTest, flash, faults, adminOps>>

\* scheduler.js:149-157
MarkPendingAgain(w) ==
  /\ pc[w] = "rollback"
  /\ sched' = [sched EXCEPT ![cur[w]] = PendingData(@)]
  /\ ret' = [ret EXCEPT ![w] = Undefined]
  /\ hist' = [hist EXCEPT ![w].outcome = "rolledback"]
  /\ pc' = [pc EXCEPT ![w] = "returned"]
  /\ UNCHANGED <<attendees, schedulerJob, aux, now, list, cur, recips, successCount,
                 failCount, runs, audit, lastTest, flash, faults, adminOps>>

\* a store call of the run rejects: scheduler.js:132-135 (inside the loop),
\* 149 (outside it), and a rejection inside the catch block leaves the function
StoreThrows(w) ==
  /\ faults < MaxFaults
  /\ faults' = faults + 1
  /\ \/ /\ pc[w] \in {"markRunning", "query", "complete"}
        /\ pc' = [pc EXCEPT ![w] = "rollback"]
        /\ hist' = [hist EXCEPT ![w].faulted = TRUE]
        /\ UNCHANGED <<recips, failCount, ret>>
     \/ /\ pc[w] \in {"mintToken", "markSent"}
        /\ failCount' = [failCount EXCEPT ![w] = @ + 1]
        /\ recips' = [recips EXCEPT ![w] = Tail(@)]
        /\ pc' = [pc EXCEPT ![w] = AfterFailure(recips[w])]
        /\ hist' = [hist EXCEPT ![w].faulted = TRUE]
        /\ UNCHANGED ret
     \/ /\ pc[w] = "rollback"
        /\ ret' = [ret EXCEPT ![w] = Thrown]
        /\ hist' = [hist EXCEPT ![w].faulted = TRUE, ![w].outcome = "threw"]
        /\ pc' = [pc EXCEPT ![w] = "returned"]
        /\ UNCHANGED <<recips, failCount>>
  /\ UNCHANGED <<sched, attendees, schedulerJob, aux, now, list, cur, successCount,
                 runs, audit, lastTest, flash, adminOps>>

\* the caller resumes after `await processScheduledEmail(...)`:
\* scheduler.js:64-70 (tick), scheduler.js:184-186 with admin.js:1062-1070
Resume(w) ==
  /\ pc[w] = "returned"
  /\ IF w = TrigId
     THEN /\ EndInvocation(w)
          /\ flash' = IF ret[w] = Thrown THEN "sendNowFailed" ELSE "sendNowOk"
     ELSE /\ IF ret[w] # Thrown /\ list[w] # <<>>
             THEN /\ BeginRun(w, Head(list[w]))
                  /\ list' = [list EXCEPT ![w] = Tail(@)]
             ELSE EndInvocation(w)
          /\ UNCHANGED flash
  /\ UNCHANGED <<sched, attendees, schedulerJob, aux, now, audit, lastTest,
                 faults, adminOps>>

\* ---------------------------------------------------- the control surface

\* scheduler.js:174-177
TriggerData(row) == [row EXCEPT !.status = "pending"]

\* faulty variant: the reset also forgets the last run
ResetDataClearsLastRun(row) == [row EXCEPT !.status = "pending", !.lastRun = NULL]

\* scheduler.js:275-278
ResetData(row) == [row EXCEPT !.status = "pending"]

\* admin.js:1053-1071 with scheduler.js:164-182
triggerScheduledEmail(slot) ==
  /\ adminOps < MaxAdminOps
  /\ adminOps' = adminOps + 1
  /\ pc[TrigId] = "idle"
  /\ IF slot \notin SLOTS
     THEN /\ flash' = "invalidSlot"
          /\ UNCHANGED <<sched, workerVars>>
     ELSE IF slot \notin DOMAIN sched
     THEN /\ flash' = "sendNowFailed"
          /\ UNCHANGED <<sched, workerVars>>
     ELSE /\ sched' = [sched EXCEPT ![slot] = TriggerData(@)]
          /\ BeginRun(TrigId, slot)
          /\ UNCHANGED <<list, flash>>
  /\ UNCHANGED <<attendees, schedulerJob, aux, now, audit, lastTest, faults>>

\* admin.js:1074-1091 with scheduler.js:274-279
resetSchedule(slot) ==
  /\ adminOps < MaxAdminOps
  /\ adminOps' = adminOps + 1
  /\ IF slot \notin SLOTS
     THEN /\ flash' = "invalidSlot"
          /\ UNCHANGED sched
     ELSE IF slot \notin DOMAIN sched
     THEN /\ flash' = "resetFailed"
          /\ UNCHANGED sched
     ELSE /\ sched' = [sched EXCEPT ![slot] = ResetData(@)]
          /\ flash' = "resetOk"
  /\ UNCHANGED <<attendees, schedulerJob, aux, now, workerVars, audit, lastTest,
                 faults>>

\* the time value of an Invalid Date
NaN == -2

\* the slot values a request carries, valid or not
RequestSlots == {0, 1, 4, 5}

\* the due times an operator types into the form
DueInputs == {"", "1970-01-01T05:46", "soon", "1970-02-31T05:46"}

\* the typed due times that name no moment of the calendar
MalformedInputs == {"soon", "1970-02-31T05:46"}

\* admin.js:1037 and scheduler.js:252: the time value of new Date(str), in
\* minutes, for the strings of DueInputs. An empty string is not passed on; a
\* string V8 cannot read gives an Invalid Date; a day past the end of its
\* month (at most 31) is read and rolls over into the next month.
DateParse(str) ==
  CASE str = "" -> NULL
    [] str = "1970-01-01T05:46" -> NptOffsetMin + 1
    [] str = "1970-02-31T05:46" -> (31 + 28 + 2) * 24 * 60 + NptOffsetMin + 1
    [] OTHER -> NaN

\* scheduler.js:247-262: the fields the call writes; NULL = field absent
UpdateData(data) ==
  LET scheduledTime == IF data.scheduledTimeNpt = NaN
                       THEN NaN
                       ELSE IF data.scheduledTimeNpt # NULL
                       THEN data.scheduledTimeNpt - NptOffsetMin
                       ELSE data.scheduledTime
  IN [subject |-> data.subject, enabled |-> data.enabled,
      scheduledTime |-> scheduledTime,
      resetStatus |-> (data.enabled /\ data.scheduledTime # NULL)]

\* scheduler.js:264-267: prisma writes the fields present in updateData
ApplyUpdate(row, u) ==
  [row EXCEPT !.subject = u.subject,
              !.enabled = u.enabled,
              !.scheduledTime = IF u.scheduledTime # NULL THEN u.scheduledTime ELSE @,
              !.status = IF u.resetStatus THEN "pending" ELSE @]

\* admin.js:1021-1050 with scheduler.js:247-268; scheduledTimeNpt is the time
\* value of the typed string. Prisma rejects a write of an Invalid Date.
updateSchedule(slot, subject, enabled, scheduledTimeNpt) ==
  /\ adminOps < MaxAdminOps
  /\ adminOps' = adminOps + 1
  /\ IF slot \notin SLOTS
     THEN /\ flash' = "invalidSlot"
          /\ UNCHANGED sched
     ELSE IF slot \notin DOMAIN sched \/ scheduledTimeNpt = NaN
     THEN /\ flash' = "updateFailed"
          /\ UNCHANGED sched
     ELSE LET data == [subject |-> IF subject = "" THEN "null" ELSE subject,
                       enabled |-> enabled,
                       scheduledTimeNpt |-> scheduledTimeNpt,
                       scheduledTime |-> NULL]
          IN /\ sched' = [sched EXCEPT ![slot] = ApplyUpdate(@, UpdateData(data))]
             /\ flash' = "updateOk"
  /\ UNCHANGED <<attendees, schedulerJob, aux, now, workerVars, audit, lastTest,
                 faults>>

\* id of the synthetic attendee of a test send (admin.js:1109-1114)
TestId == 0

\* admin.js:1094-1143 with email.js:709-748 / 895-931
sendTest(slot, success) ==
  /\ adminOps < MaxAdminOps
  /\ adminOps' = adminOps + 1
  /\ IF slot \notin SLOTS
     THEN /\ flash' = "invalidSlot"
          /\ UNCHANGED <<attendees, lastTest>>
     ELSE IF ~success
     THEN /\ flash' = "testFailed"
          /\ lastTest' = [slot |-> slot, transportCalls |-> 1, attendeeWrites |-> 0]
          /\ UNCHANGED attendees
     ELSE \* the send succeeded: prisma.attendee.update({where: {id: 'test'}, ...})
          /\ lastTest' = [slot |-> slot, transportCalls |-> 1, attendeeWrites |-> 1]
          /\ IF TestId \in DOMAIN attendees
             THEN /\ attendees' = [attendees EXCEPT
                                     ![TestId] = SentUpdate(@, slotEmailType(slot))]
                  /\ flash' = "testOk"
             ELSE /\ flash' = "testError"
                  /\ UNCHANGED attendees
  /\ UNCHANGED <<sched, schedulerJob, aux, now, workerVars, audit, faults>>

\* ------------------------------------------------- initDefaultSchedules

\* what the calls of this section leave alone
engineVars == <<attendees, schedulerJob, now, workerVars, audit, lastTest,
                faults, adminOps, timers, schedulerLog, attendeeEmails, reg,
                lastReq, bulk>>

\* scheduler.js:214: the loop goes on with the next slot or ends
AfterSlot(call) ==
  IF call.slot = 4 THEN [call EXCEPT !.pc = "done", !.outcome = "ok"]
  ELSE [call EXCEPT !.pc = "find", !.slot = @ + 1]

\* admin.js:986-989: a GET /email-scheduler request enters initDefaultSchedules
EnsureStart(c) ==
  /\ ensure[c].pc \in {"idle", "done"}
  /\ ensure' = [ensure EXCEPT ![c] = [pc |-> "find", slot |-> 1, outcome |-> "none"]]
  /\ UNCHANGED <<sched, flash, engineVars>>

\* scheduler.js:215-219: findUnique, then the test of its result
EnsureFind(c) ==
  /\ ensure[c].pc = "find"
  /\ ensure' = [ensure EXCEPT ![c] =
                  IF ensure[c].slot \in DOMAIN sched THEN AfterSlot(@)
                  ELSE [@ EXCEPT !.pc = "create"]]
  /\ UNCHANGED <<sched, flash, engineVars>>

\* the table with a row added for the slot
WithRow(sc, slot, row) ==
  [s \in DOMAIN sc \cup {slot} |-> IF s = slot THEN row ELSE sc[s]]

\* scheduler.js:227-234: create; slot is a unique column, so a second row for
\* the slot is rejected, the call rejects and the route answers with an error
\* (admin.js:1013-1017)
EnsureCreate(c) ==
  /\ ensure[c].pc = "create"
  /\ IF ensure[c].slot \in DOMAIN sched
     THEN /\ ensure' = [ensure EXCEPT ![c].pc = "done", ![c].outcome = "failed"]
          /\ flash' = "loadFailed"
          /\ UNCHANGED sched
     ELSE /\ sched' = WithRow(sched, ensure[c].slot, DefaultRow)
          /\ ensure' = [ensure EXCEPT ![c] = AfterSlot(@)]
          /\ UNCHANGED flash
  /\ UNCHANGED engineVars

\* ------------------------------------------------ POST /send-bulk-email

\* what the bulk send leaves alone
bulkFrame == <<sched, schedulerJob, now, workerVars, lastTest, adminOps, timers,
               schedulerLog, ensure, attendeeEmails, reg, lastReq>>

\* the invocation id of the bulk send, after those of the ticks
BulkId == MaxTicks + 1

RECURSIVE DescSeq(_)
\* orderBy registeredAt desc: the latest registration first
DescSeq(S) ==
  IF S = {} THEN <<>>
  ELSE LET m == CHOOSE x \in S : \A y \in S : x >= y
       IN <<m>> \o DescSeq(S \ {m})

\* admin.js:426-436: the attendees the request fetches
BulkRecipients(att, filter) ==
  IF filter = "pending" THEN {a \in DOMAIN att : att[a].postWebinarSent = FALSE}
  ELSE DOMAIN att

\* admin.js:418-443
BulkStart(filter) ==
  /\ bulk.pc = "idle"
  /\ LET found == SnapshotSeq(attendees, DescSeq(BulkRecipients(attendees, filter)))
     IN IF found = <<>>
        THEN /\ bulk' = [bulk EXCEPT !.pc = "done", !.filter = filter]
             /\ flash' = "bulkNone"
        ELSE /\ bulk' = [bulk EXCEPT !.pc = NextPc(found), !.filter = filter,
                                     !.recips = found,
                                     !.readSet = {found[i].id : i \in DOMAIN found}]
             /\ UNCHANGED flash
  /\ UNCHANGED <<attendees, audit, faults, bulkFrame>>

\* admin.js:451-459
BulkMint ==
  /\ bulk.pc = "mintToken"
  /\ LET a == Head(bulk.recips).id
         token == FreshToken(BulkId, a)
     IN /\ attendees' = [attendees EXCEPT ![a].surveyToken = token]
        /\ bulk' = [bulk EXCEPT !.recips[1].surveyToken = token, !.pc = "send"]
  /\ UNCHANGED <<audit, flash, faults, bulkFrame>>

\* admin.js:461-462 with email.js:912-920: the transport call and its result;
\* a result without success leaves sendPostWebinarEmail without an exception
\* and the route counts the recipient as sent
BulkSend(success) ==
  /\ bulk.pc = "send"
  /\ LET a == Head(bulk.recips).id
     IN /\ audit' = IF success
                    THEN [audit EXCEPT !.delivered[a]["postWebinar"] = @ + 1]
                    ELSE audit
        /\ bulk' = IF UpdatesAttendee(success)
                   THEN [bulk EXCEPT !.pc = "markSent",
                                     !.sentOk = IF success THEN @ \cup {a} ELSE @]
                   ELSE [bulk EXCEPT !.successCount = @ + 1,
                                     !.recips = Tail(@),
                                     !.pc = NextPc(Tail(bulk.recips))]
  /\ UNCHANGED <<attendees, flash, faults, bulkFrame>>

\* email.js:922-928 then admin.js:462
BulkMarkSent ==
  /\ bulk.pc = "markSent"
  /\ LET a == Head(bulk.recips).id
     IN /\ attendees' = [attendees EXCEPT ![a] = PostWebinarUpdate(@)]
        /\ audit' = [audit EXCEPT !.flagWrites[a]["postWebinar"] = @ + 1]
  /\ bulk' = [bulk EXCEPT !.successCount = @ + 1,
                          !.recips = Tail(@),
                          !.pc = NextPc(Tail(bulk.recips))]
  /\ UNCHANGED <<flash, faults, bulkFrame>>

\* admin.js:466-469: a store call for the recipient rejects
BulkStoreThrows ==
  /\ bulk.pc \in {"mintToken", "markSent"}
  /\ faults < MaxFaults
  /\ faults' = faults + 1
  /\ bulk' = [bulk EXCEPT !.failCount = @ + 1,
                          !.recips = Tail(@),
                          !.pc = NextPc(Tail(bulk.recips))]
  /\ UNCHANGED <<attendees, audit, flash, bulkFrame>>

\* admin.js:472-479: the summary message
BulkReport ==
  /\ bulk.pc = "complete"
  /\ flash' = IF bulk.failCount = 0 THEN "bulkOk"
              ELSE IF bulk.successCount = 0 THEN "bulkAllFailed"
              ELSE "bulkSomeFailed"
  /\ bulk' = [bulk EXCEPT !.pc = "done"]
  /\ UNCHANGED <<attendees, audit, faults, bulkFrame>>

\* --------------------------------------------------- the admin router

\* the scheduler's routes of the admin router (admin.js:1021-1143)
AdminRoutes == {"update", "sendNow", "reset", "test"}

\* faulty variant: the test-send route is registered ahead of the guard
ProtectedExceptTest(route) == route \in AdminRoutes \ {"test"}

\* admin.js:289: router.use(ensureAuthenticated) precedes every route
Protected(route) == route \in AdminRoutes

\* middleware/auth.js: next() for an authenticated request, else a redirect
\* to the login page
ensureAuthenticated(route, authenticated) ==
  /\ LET passes == Protected(route) => authenticated
     IN lastReq' = [route |-> route, authenticated |-> authenticated,
                    redirect |-> IF passes THEN "none" ELSE "/auth/login",
                    handled |-> passes]
  /\ UNCHANGED <<sched, flash, ensure, attendeeEmails, reg, attendees,
                 schedulerJob, now, workerVars, audit, lastTest, faults,
                 adminOps, timers, schedulerLog, bulk>>

\* the router hands the request to the handler of its route
Handles(route) == lastReq.handled /\ lastReq.route = route

\* ------------------------------------------------------- POST /register

\* what a registration leaves alone
siteVars == <<sched, flash, ensure, lastReq, attendees, schedulerJob, now,
              workerVars, audit, lastTest, faults, adminOps, timers,
              schedulerLog, bulk>>

\* faulty variant: the address is stored as typed
toLowerCaseKeep(email) == email

\* String.prototype.toLowerCase on the addresses of Emails
toLowerCase(email) ==
  IF email = "A@example.com" THEN "a@example.com" ELSE email

\* the unique index on attendee.email: a record with the address exists
EmailTaken(store, email) == store[email] > 0

\* part_001:129-141: the form passed validation and the handler begins
RegisterStart(r, raw) ==
  /\ reg[r].pc \in {"idle", "done"}
  /\ reg' = [reg EXCEPT ![r] = [pc |-> "find", email |-> raw, outcome |-> "none"]]
  /\ UNCHANGED <<attendeeEmails, siteVars>>

\* part_001:145-156: findUnique by the lower-cased address, then the test
RegisterFind(r) ==
  /\ reg[r].pc = "find"
  /\ reg' = [reg EXCEPT ![r] =
               IF attendeeEmails[toLowerCase(@.email)] > 0
               THEN [@ EXCEPT !.pc = "done", !.outcome = "alreadyRegistered"]
               ELSE [@ EXCEPT !.pc = "create"]]
  /\ UNCHANGED <<attendeeEmails, siteVars>>

\* part_001:169-198: create with the lower-cased address; a rejected create
\* lands in the catch block and the form is rendered with an error
RegisterCreate(r) ==
  /\ reg[r].pc = "create"
  /\ LET email == toLowerCase(reg[r].email) IN
       IF EmailTaken(attendeeEmails, email)
       THEN /\ reg' = [reg EXCEPT ![r].pc = "done", ![r].outcome = "error"]
            /\ UNCHANGED attendeeEmails
       ELSE /\ attendeeEmails' = [attendeeEmails EXCEPT ![email] = @ + 1]
            /\ reg' = [reg EXCEPT ![r].pc = "done", ![r].outcome = "registered"]
  /\ UNCHANGED siteVars

\* ------------------------------------------------------------------- Next
\* the due times an operator enters, in Nepal time
NptInputs == {NULL, NptOffsetMin + 1, NptOffsetMin + MaxMinutes + 1}

\* the poller (started once), the dispatch runs, send-now and reset
CoreNext ==
  \/ ~schedulerJob /\ initScheduler
  \/ \E w \in TickIds : checkAndSendScheduledEmails(w)
  \/ \E w \in Workers : MarkRunning(w)
  \/ \E w \in Workers : FindRecipients(w)
  \/ \E w \in Workers : MintToken(w)
  \/ \E w \in Workers, success \in BOOLEAN : SendEmail(w, success)
  \/ \E w \in Workers : MarkSent(w)
  \/ \E w \in Workers : MarkCompleted(w)
  \/ \E w \in Workers : Resume(w)
  \/ \E slot \in AdminSlots : triggerScheduledEmail(slot)
  \/ \E slot \in AdminSlots : resetSchedule(slot)

\* the poller, the dispatch runs and the whole control surface
Next ==
  \/ CoreNext
  \/ \E slot \in AdminSlots, subject \in {"", "custom"}, enabled \in BOOLEAN,
        npt \in NptInputs : updateSchedule(slot, subject, enabled, npt)
  \/ \E slot \in AdminSlots, success \in BOOLEAN : sendTest(slot, success)

\* the poller, the dispatch runs, send-now and reset with store calls that
\* reject, for the first MaxFaultRuns runs
FaultNext ==
  \/ ~schedulerJob /\ initScheduler
  \/ \E w \in TickIds : checkAndSendScheduledEmails(w) /\ runs' <= MaxFaultRuns
  \/ \E w \in TickIds : checkAndSendFails(w)
  \/ \E w \in Workers : MarkRunning(w)
  \/ \E w \in Workers : FindRecipients(w)
  \/ \E w \in Workers : MintToken(w)
  \/ \E w \in Workers, success \in BOOLEAN : SendEmail(w, success)
  \/ \E w \in Workers : MarkSent(w)
  \/ \E w \in Workers : MarkCompleted(w)
  \/ \E w \in Workers : MarkPendingAgain(w)
  \/ \E w \in Workers : StoreThrows(w)
  \/ \E w \in Workers : Resume(w) /\ runs' <= MaxFaultRuns
  \/ \E slot \in AdminSlots : triggerScheduledEmail(slot) /\ runs' <= MaxFaultRuns
  \/ \E slot \in AdminSlots : resetSchedule(slot)

\* ticks, dispatch runs, send-now and reset only
CoreSpec == Init /\ [][CoreNext]_vars

Spec == Init /\ [][Next]_vars

\* the poller started and stopped at any time, and the dispatch runs of its ticks
LifecycleNext ==
  \/ initScheduler
  \/ stopScheduler
  \/ \E w \in TickIds : checkAndSendScheduledEmails(w)
  \/ \E w \in TickIds : MarkRunning(w)
  \/ \E w \in TickIds : FindRecipients(w)
  \/ \E w \in TickIds : MintToken(w)
  \/ \E w \in TickIds, success \in BOOLEAN : SendEmail(w, success)
  \/ \E w \in TickIds : MarkSent(w)
  \/ \E w \in TickIds : MarkCompleted(w)
  \/ \E w \in TickIds : Resume(w)

LifecycleSpec == Init /\ [][LifecycleNext]_vars

\* requests for the scheduler page on a database that may lack rows
DefaultsNext ==
  \/ \E c \in Callers : EnsureStart(c)
  \/ \E c \in Callers : EnsureFind(c)
  \/ \E c \in Callers : EnsureCreate(c)

DefaultsSpec == PartialInit /\ [][DefaultsNext]_vars

\* visitors submitting the registration form
RegisterNext ==
  \/ \E r \in Requests, raw \in Emails : RegisterStart(r, raw)
  \/ \E r \in Requests : RegisterFind(r)
  \/ \E r \in Requests : RegisterCreate(r)

RegisterSpec == Init /\ [][RegisterNext]_vars

FaultSpec == Init /\ [][FaultNext]_vars

\* one armed slot: the rows of the other slots are as created
OneSlotInit ==
  /\ Init
  /\ sched[PostWebinarSlot] = DefaultRow

\* the first tick invocation
FirstTick == CHOOSE w \in TickIds : \A v \in TickIds : w <= v

\* the steps of a run in which the awaited call answers
RunStep(w) ==
  \/ MarkRunning(w)
  \/ FindRecipients(w)
  \/ MintToken(w)
  \/ \E success \in BOOLEAN : SendEmail(w, success)
  \/ MarkSent(w)
  \/ MarkCompleted(w)
  \/ MarkPendingAgain(w)
  \/ Resume(w)

\* the poller, firing for ever, with ticks that do not overlap, and a store
\* that rejects up to MaxFaults calls and has recovered when the last modelled
\* run starts
RetryNext ==
  \/ ~schedulerJob /\ initScheduler
  \/ checkAndSendScheduledEmails(FirstTick)
  \/ laterTick(FirstTick)
  \/ MarkRunning(FirstTick)
  \/ FindRecipients(FirstTick)
  \/ MintToken(FirstTick)
  \/ \E success \in BOOLEAN : SendEmail(FirstTick, success)
  \/ MarkSent(FirstTick)
  \/ MarkCompleted(FirstTick)
  \/ MarkPendingAgain(FirstTick)
  \/ runs < MaxRuns /\ StoreThrows(FirstTick)
  \/ Resume(FirstTick)

\* node-cron keeps firing the job and the event loop resumes every await whose
\* call has answered
RetrySpec ==
  /\ OneSlotInit
  /\ [][RetryNext]_vars
  /\ WF_vars(~schedulerJob /\ initScheduler)
  /\ WF_vars(checkAndSendScheduledEmails(FirstTick))
  /\ WF_vars(laterTick(FirstTick))
  /\ WF_vars(RunStep(FirstTick))

\* requests to the scheduler's routes, with and without a login, and the
\* dispatch run of a send-now
AuthNext ==
  \/ \E route \in AdminRoutes, authenticated \in BOOLEAN :
        ensureAuthenticated(route, authenticated)
  \/ \E slot \in AdminSlots, subject \in {"", "custom"}, enabled \in BOOLEAN,
        npt \in NptInputs :
        Handles("update") /\ updateSchedule(slot, subject, enabled, npt)
  \/ \E slot \in AdminSlots : Handles("sendNow") /\ triggerScheduledEmail(slot)
  \/ \E slot \in AdminSlots : Handles("reset") /\ resetSchedule(slot)
  \/ \E slot \in AdminSlots, success \in BOOLEAN :
        Handles("test") /\ sendTest(slot, success)
  \/ MarkRunning(TrigId)
  \/ FindRecipients(TrigId)
  \/ MintToken(TrigId)
  \/ \E success \in BOOLEAN : SendEmail(TrigId, success)
  \/ MarkSent(TrigId)
  \/ MarkCompleted(TrigId)
  \/ Resume(TrigId)

AuthSpec == Init /\ [][AuthNext]_vars

\* the bulk send, next to a send-now and its dispatch run
BulkNext ==
  \/ \E filter \in {"all", "pending"} : BulkStart(filter)
  \/ BulkMint
  \/ \E success \in BOOLEAN : BulkSend(success)
  \/ BulkMarkSent
  \/ BulkStoreThrows
  \/ BulkReport
  \/ \E slot \in AdminSlots : triggerScheduledEmail(slot)
  \/ MarkRunning(TrigId)
  \/ FindRecipients(TrigId)
  \/ MintToken(TrigId)
  \/ \E success \in BOOLEAN : SendEmail(TrigId, success)
  \/ MarkSent(TrigId)
  \/ MarkCompleted(TrigId)
  \/ Resume(TrigId)

BulkSpec == Init /\ [][BulkNext]_vars

\* an operator's requests with any slot value and any typed due time, on a
\* database that may lack rows, and the dispatch run of a send-now
ConfigNext ==
  \/ \E slot \in RequestSlots, subject \in {"", "custom"}, enabled \in BOOLEAN,
        str \in DueInputs : updateSchedule(slot, subject, enabled, DateParse(str))
  \/ \E slot \in RequestSlots : triggerScheduledEmail(slot)
  \/ \E slot \in RequestSlots : resetSchedule(slot)
  \/ \E slot \in RequestSlots, success \in BOOLEAN : sendTest(slot, success)
  \/ MarkRunning(TrigId)
  \/ FindRecipients(TrigId)
  \/ MintToken(TrigId)
  \/ \E success \in BOOLEAN : SendEmail(TrigId, success)
  \/ MarkSent(TrigId)
  \/ MarkCompleted(TrigId)
  \/ Resume(TrigId)

ConfigSpec == PartialInit /\ [][ConfigNext]_vars

\* ------------------------------------------------------------- properties

RunPcs == {"query", "mintToken", "send", "markSent", "complete", "rollback"}

\* w is inside processScheduledEmail for slot s, past the write of 'running'
InFlight(w, s) == pc[w] \in RunPcs /\ cur[w] = s

\* the sent-flag of a slot, as the data model names it
SlotFlag(slot) ==
  CASE slot = 1 -> "reminder1Sent"
    [] slot = 2 -> "reminder2Sent"
    [] slot = 3 -> "reminder3Sent"
    [] slot = 4 -> "postWebinarSent"

FlagFields == {"reminder1Sent", "reminder2Sent", "reminder3Sent", "postWebinarSent"}

Unsent(slot) == {a \in DOMAIN attendees : ~attendees[a][SlotFlag(slot)]}

RemainingIds(w) == {recips[w][i].id : i \in DOMAIN recips[w]}

\* the step of w that writes 'completed' and leaves processScheduledEmail
Completes(w) == pc[w] = "complete" /\ pc'[w] = "returned"

\* the step of w that writes 'pending' in the catch block and leaves
RollsBack(w) == pc[w] = "rollback" /\ pc'[w] = "returned" /\ ret'[w] = Undefined

\* C1: no attendee gets the email of a slot twice: the transport reports at
\* most one successful send per attendee and email type.
NoDoubleSend ==
  \A a \in Attendees, t \in EmailTypes : audit.delivered[a][t] <= 1

\* C2: at no time are two runs of processScheduledEmail for the same slot in
\* flight together.
NoConcurrentDispatch ==
  \A s \in SLOTS : Cardinality({w \in Workers : InFlight(w, s)}) <= 1

\* C3: a sent-flag is written at most once per successful send, and no step of
\* any operation turns a true flag false.
SentFlagDurable ==
  /\ [](\A a \in Attendees, t \in EmailTypes :
          audit.flagWrites[a][t] <= audit.delivered[a][t])
  /\ [][\A a \in Attendees, f \in FlagFields :
          attendees[a][f] => attendees'[a][f]]_vars

SentFlagDurableWitness ==
  \E a \in Attendees :
    /\ attendees[a].postWebinarSent
    /\ audit.flagWrites[a]["postWebinar"] = 1
    /\ flash = "resetOk"

\* C4: when a poll tick writes 'running' for a slot, that slot is enabled,
\* pending and due at that moment.
PollerDispatchesOnlyDue ==
  [][\A w \in TickIds :
       (pc[w] = "markRunning" /\ pc'[w] = "query") => IsDue(sched[cur[w]], now)]_vars

Summary(n, m) == [kind |-> "summary", successCount |-> n, failureCount |-> m]

\* all recipients the run read were sent to successfully and no store call failed
AllSucceeded(w) == ~hist[w].faulted /\ hist[w].sentOk = hist[w].readSet

TickRunEffects(w) ==
  /\ hist[w].marked = hist[w].readSet
  /\ \A a \in hist[w].readSet : attendees'[a][SlotFlag(cur[w])]
  /\ sched'[cur[w]].status = "completed"
  /\ sched'[cur[w]].lastRun = now
  /\ sched'[cur[w]].lastRun # NULL

OneFailed(w) ==
  /\ ~hist[w].faulted
  /\ Cardinality(hist[w].readSet) >= 2
  /\ Cardinality(hist[w].attempted \ hist[w].sentOk) = 1

\* C6: a transport failure for one recipient never aborts or reverts the run:
\* every recipient read is still attempted, the run completes, the flags of all
\* the others are set and the counters are N-1 and 1.
PartialFailureIsolated ==
  /\ [](\A w \in Workers :
          (pc[w] \in RunPcs \cup {"returned"} /\ ~hist[w].faulted) =>
            /\ pc[w] # "rollback"
            /\ hist[w].outcome \in {"none", "completed"}
            /\ pc[w] \in {"query", "returned"} \/
                 RemainingIds(w) \cup hist[w].attempted = hist[w].readSet)
  /\ [][\A w \in Workers :
          (Completes(w) /\ OneFailed(w)) =>
            /\ hist[w].attempted = hist[w].readSet
            /\ hist[w].marked = hist[w].sentOk
            /\ \A a \in hist[w].sentOk : attendees'[a][SlotFlag(cur[w])]
            /\ successCount[w] = Cardinality(hist[w].readSet) - 1
            /\ failCount[w] = 1
            /\ sched'[cur[w]].status = "completed"]_vars

PartialFailureIsolatedWitness ==
  \E w \in Workers :
    /\ pc[w] = "returned"
    /\ hist[w].outcome = "completed"
    /\ OneFailed(w)
    /\ successCount[w] = 1
    /\ failCount[w] = 1
    /\ hist[w].attempted \ hist[w].sentOk = {1}

\* w has not got to any recipient: it read none
NoRecipientYet(w) == hist[w].readSet = {} /\ hist[w].attempted = {}

\* C7: a run aborted by an exception before any recipient is processed leaves
\* the slot 'pending': the run has not completed, has set no flag, and the slot
\* does not keep the 'running' it wrote (unless another run of the slot is in
\* flight and holds it).
AbortedRunEndsPending ==
  \A w \in Workers :
    (pc[w] = "returned" /\ hist[w].faulted /\ NoRecipientYet(w)) =>
      /\ hist[w].outcome # "completed"
      /\ hist[w].marked = {}
      /\ sched[cur[w]].status = "running" =>
           \E v \in Workers \ {w} :
             cur[v] = cur[w] /\ pc[v] \in RunPcs \cup {"markRunning"}

\* C7, the case of a single exception: a run in which a store call throws
\* before any recipient is processed,
\* and whose catch block's own write goes through, ends rolled back and never
\* completed: the step that leaves it writes 'pending', and none of its steps
\* changes lastRun or any attendee record.
AbortedRunRollsBack ==
  /\ [](\A w \in Workers :
         (pc[w] = "returned" /\ hist[w].faulted /\ NoRecipientYet(w)
            /\ ret[w] # Thrown) =>
           /\ hist[w].outcome = "rolledback"
           /\ hist[w].marked = {})
  /\ [][\A w \in Workers :
         /\ (RollsBack(w) /\ NoRecipientYet(w)) =>
              /\ sched'[cur[w]].status = "pending"
              /\ sched'[cur[w]].lastRun = sched[cur[w]].lastRun
              /\ attendees' = attendees
              /\ hist[w].marked = {}
         /\ (pc[w] \in {"markRunning", "query"} /\ pc'[w] \in {"query", "rollback"}
               /\ pc'[w] # pc[w]) =>
              /\ sched'[cur[w]].lastRun = sched[cur[w]].lastRun
              /\ attendees' = attendees]_vars

AbortedRunRollsBackWitness ==
  \E w \in Workers :
    /\ pc[w] = "returned"
    /\ hist[w].outcome = "rolledback"
    /\ hist[w].faulted
    /\ NoRecipientYet(w)
    /\ Unsent(cur[w]) = Attendees
    /\ sched[cur[w]].status = "pending"
    /\ sched[cur[w]].lastRun = NULL

\* C8: a run of a slot that starts after a run of that slot completed with every
\* recipient successful reads no recipient, sends nothing, sets no flag and,
\* unless a store call fails, completes with both counters 0.
RepollSendsNothing ==
  \A w \in Workers :
    hist[w].afterClean =>
      /\ hist[w].readSet = {}
      /\ hist[w].attempted = {}
      /\ hist[w].marked = {}
      /\ recips[w] = <<>>
      /\ successCount[w] = 0
      /\ failCount[w] = 0
      /\ Unsent(cur[w]) = {}
      /\ (pc[w] = "returned" /\ ~hist[w].faulted) => hist[w].outcome = "completed"

RepollSendsNothingWitness ==
  \E w \in Workers :
    /\ hist[w].afterClean
    /\ pc[w] = "returned"
    /\ hist[w].outcome = "completed"
    /\ audit.delivered[1][slotEmailType(cur[w])] = 1

\* C9: a send-now request starts a run of the slot whatever its due time,
\* enabled flag and status, and that run reads exactly the attendees whose flag
\* for the slot is false and attempts a send to exactly those.
ManualTriggerRespectsFlags ==
  [][/\ \A slot \in AdminSlots :
          triggerScheduledEmail(slot) =>
            (pc'[TrigId] = "markRunning" /\ cur'[TrigId] = slot)
     /\ (pc[TrigId] = "query" /\ pc'[TrigId] \notin {"query", "rollback"}) =>
          hist'[TrigId].readSet = Unsent(cur[TrigId])
     /\ hist'[TrigId].attempted \subseteq hist'[TrigId].readSet
     /\ (Completes(TrigId) /\ ~hist[TrigId].faulted) =>
          hist[TrigId].attempted = hist[TrigId].readSet]_vars

ManualTriggerRespectsFlagsWitness ==
  /\ pc[TrigId] = "returned"
  /\ ~sched[cur[TrigId]].enabled
  /\ sched[cur[TrigId]].scheduledTime = NULL
  /\ hist[TrigId].attempted = hist[TrigId].readSet
  /\ hist[TrigId].readSet = Attendees
  /\ hist[TrigId].sentOk # {}

\* C10: a test send calls the transport once and issues no write of an
\* attendee flag.
TestSendIsolated ==
  lastTest.slot # 0 =>
    /\ lastTest.transportCalls = 1
    /\ lastTest.attendeeWrites = 0

\* some invocation is inside processScheduledEmail for slot s and has yet to
\* make its last write of the slot's status
Owned(s) ==
  \E w \in Workers :
    cur[w] = s /\ pc[w] \in RunPcs \cup {"markRunning"}

\* C11: a slot never stays 'running' with no run left to resolve it: whenever
\* the status of a slot is 'running', a run of that slot is still in flight and
\* will write 'completed' or 'pending'; this also with store writes that fail.
RunningAlwaysResolves ==
  \A s \in SLOTS : sched[s].status = "running" => Owned(s)

\* C12: reset writes 'pending' whatever the status was, starts no run, sends
\* no email and leaves scheduledTime, enabled, subject, lastRun and every
\* attendee record as they were.
ResetOnlySetsPending ==
  [][\A slot \in AdminSlots :
       resetSchedule(slot) =>
         /\ sched' = [sched EXCEPT ![slot].status = "pending"]
         /\ attendees' = attendees
         /\ audit' = audit
         /\ workerVars' = workerVars
         /\ flash' = "resetOk"]_vars

ResetOnlySetsPendingWitness ==
  \E slot \in AdminSlots :
    /\ flash = "resetOk"
    /\ sched[slot].status = "pending"
    /\ sched[slot].lastRun # NULL
    /\ sched[slot].enabled
    /\ \E a \in Attendees : attendees[a][SlotFlag(slot)]

\* C13: an update that sets enabled to true and supplies a due time, as the
\* admin form posts it (scheduledTimeNpt), leaves the slot 'pending' whatever
\* its status was.
UpdateRearmsSlot ==
  [][\A slot \in AdminSlots, subject \in {"", "custom"},
        npt \in NptInputs \ {NULL} :
       updateSchedule(slot, subject, TRUE, npt) =>
         sched'[slot].status = "pending"]_vars

\* C20: a send-now request whose run failed as a whole (it was rolled back to
\* 'pending', or its rollback write was rejected) is answered with the error
\* message, never with the success message.
FailedRunIsReported ==
  [][(pc[TrigId] = "returned" /\ pc'[TrigId] = "idle"
        /\ hist[TrigId].outcome \in {"rolledback", "threw"}) =>
       flash' = "sendNowFailed"]_vars

\* C15: after stopScheduler no tick starts a dispatch: a tick begins
\* processScheduledEmail for a slot only while a cron job is active, also for
\* the remaining slots of a list it fetched before the stop.
StopPreventsNewDispatch ==
  [][\A w \in TickIds :
       (pc'[w] = "markRunning" /\ pc[w] # "markRunning") => timers > 0]_vars

\* C16: whatever the sequence of initScheduler and stopScheduler calls, at most
\* one cron job is active, and getSchedulerStatus().isRunning is true exactly
\* when one is.
StartIsIdempotent ==
  /\ timers <= 1
  /\ isRunning <=> timers = 1

StartIsIdempotentWitness ==
  /\ schedulerLog = "alreadyRunning"
  /\ isRunning
  /\ timers = 1
  /\ now > 0

\* C17: every initDefaultSchedules call ends without failing and leaves one
\* row for each slot 1..4, also when two calls interleave.
EnsureDefaultsNeverFails ==
  \A c \in Callers :
    ensure[c].pc = "done" =>
      /\ ensure[c].outcome = "ok"
      /\ DOMAIN sched = SLOTS

\* the addresses of two attendee records are the same up to letter case
SameAddress(e, f) == e = f \/ {e, f} = {"a@example.com", "A@example.com"}

\* C18: no two attendee records share an email, whatever the order of the
\* registrations' steps, and a create for an address that already has a record
\* fails and leaves the attendee store as it was.
AttendeeEmailsUnique ==
  /\ [](\A e \in Emails : attendeeEmails[e] <= 1)
  /\ [](\A e, f \in Emails :
          (attendeeEmails[e] > 0 /\ attendeeEmails[f] > 0 /\ SameAddress(e, f))
            => e = f)
  /\ [][\A r \in Requests :
          (/\ reg[r].pc = "create"
           /\ reg'[r].pc = "done"
           /\ \E e \in Emails :
                attendeeEmails[e] > 0 /\ SameAddress(e, reg[r].email))
          => /\ reg'[r].outcome = "error"
             /\ attendeeEmails' = attendeeEmails]_vars

\* two registrations of one address were both past the lookup; one was
\* stored and the other was rejected
AttendeeEmailsUniqueWitness ==
  \E r, q \in Requests :
    /\ r # q
    /\ SameAddress(reg[r].email, reg[q].email)
    /\ reg[r].email # reg[q].email
    /\ reg[r].pc = "done" /\ reg[r].outcome = "registered"
    /\ reg[q].pc = "done" /\ reg[q].outcome = "error"
    /\ attendeeEmails["a@example.com"] = 1

Rejected ==
  /\ flash' \in {"invalidSlot", "sendNowFailed", "updateFailed", "resetFailed"}
  /\ sched' = sched
  /\ attendees' = attendees

\* an operation on a slot value outside 1..4, or on a slot with no stored row
UnknownSlotRequest ==
  \/ \E slot \in RequestSlots \ SLOTS :
       \/ triggerScheduledEmail(slot)
       \/ resetSchedule(slot)
       \/ \E success \in BOOLEAN : sendTest(slot, success)
       \/ \E subject \in {"", "custom"}, enabled \in BOOLEAN, str \in DueInputs :
            updateSchedule(slot, subject, enabled, DateParse(str))
  \/ \E slot \in SLOTS \ DOMAIN sched :
       \/ triggerScheduledEmail(slot)
       \/ resetSchedule(slot)
       \/ \E subject \in {"", "custom"}, enabled \in BOOLEAN, str \in DueInputs :
            updateSchedule(slot, subject, enabled, DateParse(str))

\* an update that carries a malformed due time
MalformedTimeRequest ==
  \E slot \in RequestSlots, subject \in {"", "custom"}, enabled \in BOOLEAN,
     str \in MalformedInputs :
    updateSchedule(slot, subject, enabled, DateParse(str))

\* the part of C14 about slot values: such a request is rejected
UnknownSlotRejected == [][UnknownSlotRequest => Rejected]_vars

\* C14: a request with a slot value outside 1..4, for a slot with no stored
\* row, or with a malformed due time is answered with an error and changes no
\* schedule row and no attendee record.
ConfigErrorsRejected ==
  [][(UnknownSlotRequest \/ MalformedTimeRequest) => Rejected]_vars

\* C21: a failure while one slot of a tick's due-list is processed, a failure
\* of its rollback write included, does not keep the later slots of that list
\* from being dispatched: when the tick resumes after a slot with slots left in
\* its list, it starts the run of the next one.
LaterSlotsStillDispatched ==
  [][\A w \in TickIds :
       (pc[w] = "returned" /\ pc'[w] # "returned" /\ list[w] # <<>>) =>
         (pc'[w] = "markRunning" /\ cur'[w] = Head(list[w]))]_vars

\* the run of the tick has just been rolled back to 'pending' on a slot that
\* is enabled and due
RolledBack(s) ==
  /\ pc[FirstTick] = "returned"
  /\ cur[FirstTick] = s
  /\ hist[FirstTick].outcome = "rolledback"
  /\ IsDue(sched[s], now)

\* C22: a run of an enabled, due slot that was rolled back to 'pending' is
\* retried by the following ticks, and once the store answers again the slot
\* reaches 'completed'.
RolledBackRunIsRetried ==
  \A s \in SLOTS : RolledBack(s) ~> (sched[s].status = "completed")

\* C23: no recipient is skipped for want of a token: a run that completes has
\* attempted a send to every recipient it read, also when a token-minting
\* write failed, and whenever a send is attempted the recipient has a
\* persisted token.
NoRecipientSkipped ==
  /\ [](\A w \in Workers :
          pc[w] = "send" =>
            /\ Head(recips[w]).surveyToken # NoToken
            /\ attendees[Head(recips[w]).id].surveyToken # NoToken)
  /\ [][\A w \in Workers :
          Completes(w) => hist[w].attempted = hist[w].readSet]_vars

\* C24: a sent-flag is set only after the transport reported success for that
\* attendee and that slot's email: a true flag has a successful send before
\* it, and a send that failed or was skipped writes no attendee record.
FlagAfterSuccessfulSend ==
  /\ [](\A a \in Attendees, slot \in SLOTS :
          attendees[a][SlotFlag(slot)] =>
            audit.delivered[a][slotEmailType(slot)] >= 1)
  /\ [][\A w \in Workers :
          (pc[w] = "send" /\ pc'[w] # "send" /\ audit' = audit) =>
            (attendees' = attendees /\ pc'[w] # "markSent")]_vars

\* a run ended in which the send to one attendee succeeded and set the flag
\* and the send to another failed and left the flag false
FlagAfterSuccessfulSendWitness ==
  \E w \in Workers, a, b \in Attendees :
    /\ pc[w] = "returned"
    /\ a \in hist[w].sentOk
    /\ b \in hist[w].attempted \ hist[w].sentOk
    /\ attendees[a][SlotFlag(cur[w])]
    /\ ~attendees[b][SlotFlag(cur[w])]
    /\ audit.delivered[b][slotEmailType(cur[w])] = 0

\* C25: a persisted survey token is never overwritten, and the token a send
\* embeds in its email is the attendee's stored token, also when two runs read
\* the attendee while the token was absent.
TokenMintedOnce ==
  /\ [][\A a \in Attendees :
          attendees[a].surveyToken # NoToken =>
            attendees'[a].surveyToken = attendees[a].surveyToken]_vars
  /\ [][\A w \in Workers :
          (pc[w] = "send" /\ pc'[w] # "send") =>
            Head(recips[w]).surveyToken =
              attendees[Head(recips[w]).id].surveyToken]_vars

\* C26: a reset made while a run of the slot is in flight is not overwritten
\* by that run: once the operator's reset has been answered, the final write
\* of a run never turns a slot that is 'pending' into 'completed'.
ResetSurvivesOlderRun ==
  [][\A w \in Workers :
       (Completes(w) /\ flash = "resetOk") =>
         ~(sched[cur[w]].status = "pending" /\ sched'[cur[w]].status = "completed")]_vars

\* C27: the poller never dispatches a slot that is 'completed': when a tick's
\* run writes 'running', the slot is not 'completed' at that moment, also when
\* the tick fetched its due-list before the slot completed.
CompletedNotRedispatched ==
  [][\A w \in TickIds :
       (pc[w] = "markRunning" /\ pc'[w] = "query") =>
         sched[cur[w]].status # "completed"]_vars

\* lastRun of a row changes only in the final write of a run, which sets the
\* status 'completed', and a 'completed' row has a lastRun
LastRunWrittenByCompletion ==
  /\ [](\A s \in DOMAIN sched :
          sched[s].status = "completed" => sched[s].lastRun # NULL)
  /\ [][\A s \in DOMAIN sched :
          sched'[s].lastRun # sched[s].lastRun =>
            /\ sched'[s].status = "completed"
            /\ \E w \in Workers : Completes(w) /\ cur[w] = s]_vars

\* C28: lastRun changes only in the step that moves a slot from 'running' to
\* 'completed' at the end of a run; rollback, reset, update, test-send and
\* initDefaultSchedules leave it unchanged, and a 'completed' row has a
\* lastRun.
LastRunOnlyOnCompletion ==
  /\ LastRunWrittenByCompletion
  /\ [][\A s \in DOMAIN sched :
          sched'[s].lastRun # sched[s].lastRun =>
            (sched[s].status = "running" /\ sched'[s].status = "completed")]_vars

\* C29: a run of slot s selects its recipients by the flag of s only, and no
\* step of it changes another slot's flag of any attendee; besides the flag of
\* s it writes only surveyToken and emailSent.
SlotsTargetDisjointFlags ==
  [][\A w \in Workers :
       /\ (pc[w] = "query" /\ pc'[w] \notin {"query", "rollback"}) =>
            hist'[w].readSet = {a \in Attendees : ~attendees[a][SlotFlag(cur[w])]}
       /\ (pc[w] \in RunPcs \cup {"markRunning"} /\ pc'[w] # pc[w]) =>
            \A a \in Attendees :
              \A f \in FlagFields \ {SlotFlag(cur[w])} :
                attendees'[a][f] = attendees[a][f]]_vars

\* a run of slot 1 has set the first reminder's flag of an attendee and left
\* the attendee's other flags false
SlotsTargetDisjointFlagsWitness ==
  \E w \in Workers, a \in Attendees :
    /\ pc[w] = "returned"
    /\ cur[w] = 1
    /\ a \in hist[w].marked
    /\ attendees[a].reminder1Sent
    /\ attendees[a].emailSent
    /\ \A f \in FlagFields \ {"reminder1Sent"} : ~attendees[a][f]

\* C30: the bulk send with filter 'pending' fetches exactly the attendees whose
\* postWebinarSent is false, and the success count it reports is the number of
\* recipients for which the transport reported success, the others being
\* counted as failed.
BulkCountsFaithful ==
  /\ [][BulkStart("pending") =>
          bulk'.readSet = {a \in Attendees : ~attendees[a].postWebinarSent}]_vars
  /\ [](bulk.pc = "done" =>
          /\ bulk.successCount = Cardinality(bulk.sentOk)
          /\ bulk.failCount = Cardinality(bulk.readSet \ bulk.sentOk))

====
